---- MODULE Spec2Model ----
(***************************************************************************)
(* MultiAgentCoordinator (backend/agents/multi_agent.py): the registry of  *)
(* paper agents and start_collaboration with its four protocols.           *)
(*                                                                         *)
(* One start_collaboration call is followed from its first statement to    *)
(* its return or raise.  A step of the model is the code that runs between *)
(* two awaits of the coroutine; register_agent and unregister_agent are    *)
(* synchronous methods of the same object and may run between any two      *)
(* steps.  An agent's process_query is an external capability: it returns  *)
(* a reply drawn from Replies or raises.                                   *)
(*                                                                         *)
(* A text is kept as [ch, len]: the character ch repeated len times.       *)
(* Numbers the code keeps as floats are kept as exact fractions; on the    *)
(* lengths and list sizes used here the comparisons agree with the floats. *)
(*                                                                         *)
(* AgentCoordinator (ai-service/multi-agent/agent_coordinator.py), the     *)
(* second coordinator of the repository, has its own variables and its own *)
(* specifications: RegistrySpec runs the two registries alone,             *)
(* ConversationSpec the conversations of AgentCoordinator.                 *)
(*                                                                         *)
(* SequentialSpec runs the sequential protocol over lists of four and five *)
(* participants.  MCPServer (ai-service/mcp-server/mcp_protocol.py),       *)
(* WebSocketManager (backend/services/websocket_service.py) and EventBus   *)
(* (backend/events/base.py) are independent objects, each with its own     *)
(* variables and its own specification: McpSpec, WebSocketSpec and         *)
(* EventBusSpec.                                                           *)
(***************************************************************************)
EXTENDS Integers, Sequences, FiniteSets, TLC

VARIABLES
    active_agents,          \* self.active_agents: agent id -> handle
    active_collaborations,  \* self.active_collaborations (its key set)
    pc,                     \* position of the start_collaboration coroutine
    task,                   \* the CollaborationTask of the call
    current_iteration,      \* current_iteration of debate / consensus
    responses,              \* responses / round_responses: the list being filled
    current_responses,      \* initial_responses (debate), current_responses (consensus)
    all_responses,          \* all_responses of debate / consensus
    current_context,        \* the prompt the next agent gets (current_context, debate_query, consensus_query)
    outstanding,            \* positions in task.agents whose process_query is in flight
    responses_data,         \* results collected by asyncio.gather, by position
    elapsed,                \* task.timeout seconds have passed since the call started
    calls,                  \* every process_query issued so far, in order of issue
    result,                 \* the dict start_collaboration returned
    error,                  \* the exception start_collaboration raised
    \* AgentCoordinator (ai-service/multi-agent/agent_coordinator.py)
    paper_agents,           \* AgentCoordinator.active_agents: paper id -> agent
    agent_relationships,    \* self.agent_relationships: paper id -> set of paper ids
    conversations,          \* self.conversations, in order of creation
    last_call,              \* the last register_agent / remove_agent / start_conversation call and what it returned
    send_pc,                \* position of the send_message_to_conversation coroutine
    send_call,              \* its arguments: conversation_id, sender_id
    send_targets,           \* the paper ids its loop goes through
    send_responses,         \* its local list "responses"
    asked,                  \* the paper ids whose query it has issued, in order
    send_result             \* what it returned or raised

backend_vars == <<active_agents, active_collaborations, pc, task, current_iteration,
                  responses, current_responses, all_responses, current_context,
                  outstanding, responses_data, elapsed, calls, result, error>>

coordinator_vars == <<paper_agents, agent_relationships, conversations, last_call,
                      send_pc, send_call, send_targets, send_responses, asked,
                      send_result>>

\* MCPServer (ai-service/mcp-server/mcp_protocol.py): the registry of
\* initialized connections, each connection handler's websocket state and
\* local agent_id, and the messages the handlers have taken off the wire
VARIABLES connected_agents, websockets, received

mcp_vars == <<connected_agents, websockets, received>>

\* WebSocketManager (backend/services/websocket_service.py): its three
\* dicts, the websockets that have been accepted, and the latest log_event
VARIABLES active_connections, connection_metadata, rooms, accepted, logged

websocket_vars == <<active_connections, connection_metadata, rooms, accepted, logged>>

\* EventBus (backend/events/base.py): the subscription lists, and of the
\* publish call in progress its position, its event with the handlers found
\* for it, and the coroutines handed to gather
VARIABLES _handlers, publish_pc, published, tasks

bus_vars == <<_handlers, publish_pc, published, tasks>>

service_vars == <<mcp_vars, websocket_vars, bus_vars>>

vars == <<backend_vars, coordinator_vars, service_vars>>

(***************************************************************************)
(* Bounds and input sets                                                   *)
(***************************************************************************)
MaxIter == 3

AgentIds == {"a1", "a2", "a3"}
Handles == {"h1"}

Modes == {"sequential", "parallel", "debate", "consensus"}

\* participant lists: no id twice; single-round modes take up to three
\* participants, the iterated modes up to two (three for two rounds)
RECURSIVE Perms(_)
Perms(S) ==
    IF S = {} THEN {<<>>}
    ELSE UNION {{<<x>> \o p : p \in Perms(S \ {x})} : x \in S}

AgentLists == UNION {Perms(S) : S \in SUBSET AgentIds}
RoundAgentLists == {<<>>, <<"a1">>, <<"a1", "a2">>, <<"a2", "a1">>, <<"a2", "a3">>}

TheQuery == "Q"

Tasks ==
    [task_id : {"t1"}, query : {TheQuery}, agents : AgentLists,
     mode : {"sequential", "parallel"}, max_iterations : {MaxIter}]
    \cup
    [task_id : {"t1"}, query : {TheQuery}, agents : RoundAgentLists,
     mode : {"debate", "consensus"}, max_iterations : 0..MaxIter]
    \cup
    [task_id : {"t1"}, query : {TheQuery}, agents : {<<"a3", "a1", "a2">>},
     mode : {"debate", "consensus"}, max_iterations : {2}]

\* program constants (confidences are in hundredths)
MinParticipants == 2
MaxParticipants == 10
DefaultConfidence == 80
HistoryWindow == 3
SequentialExcerpt == 200
RoundExcerpt == 150
DiversityPrefix == 100

Text(c, n) == [ch |-> c, len |-> n]
Contents == {Text("x", 0), Text("x", 200), Text("y", 220)}

\* what process_query may return: "content" and an optional "confidence_score"
Replies ==
    {[content |-> Text("x", 0)],
     [content |-> Text("x", 200), confidence_score |-> 90],
     [content |-> Text("y", 220), confidence_score |-> 70]}

Raised == [raised |-> TRUE]
Pending == [pending |-> TRUE]

NoTask == [task_id |-> "", query |-> "", agents |-> <<>>, mode |-> "none", max_iterations |-> 0]
NoResult == [mode |-> "none"]
NoError == [type |-> "none"]
NoPrompt == [query |-> ""]
NoCall == [op |-> "none"]
NoSend == [op |-> "none", number |-> 0]

\* MCP: connections, agent ids and the messages a client may send; agent_id
\* is params["agent_id"], None when the message carries none
MaxReceived == 3
None == "None"
McpSockets == {"ws1", "ws2"}
McpAgentIds == {"m1", "m2"}
WireMessages == [type : {"initialize", "request"}, agent_id : McpAgentIds \cup {None}]

\* WebSocketManager: websockets, connection ids (the empty string is one),
\* rooms and the metadata argument of connect
Sockets == {"s1", "s2", "s3"}
ConnectionIds == {"", "c1", "c2"}
RoomIds == {"r1", "r2"}
Metadata == {None, "user"}

\* EventBus: handlers with their event_types, the types an event may have,
\* and the longest subscription list
MaxSubscribed == 3
EventHandlers == {"H1", "H2"}
EventTypes == {"e1", "e2", "e3"}
event_types(handler) == IF handler = "H1" THEN <<"e1">> ELSE <<"e1", "e2">>
NoEvent == [event_type |-> None, handlers |-> <<>>]

(***************************************************************************)
(* Pure helpers                                                            *)
(***************************************************************************)
Min(a, b) == IF a < b THEN a ELSE b
Max(a, b) == IF a > b THEN a ELSE b
Abs(a) == IF a < 0 THEN -a ELSE a

\* text[:k]
Take(text, k) == [ch |-> text.ch, len |-> Min(text.len, k)]

\* list[:n] in place of list[-n:]
PyFirst(s, n) == SubSeq(s, 1, IF n < Len(s) THEN n ELSE Len(s))

\* list[-n:]  (list[-0:] is the whole list)
PyLast(s, n) ==
    IF n = 0 \/ n >= Len(s) THEN s ELSE SubSeq(s, Len(s) - n + 1, Len(s))

Range(s) == {s[i] : i \in 1..Len(s)}

\* sum(len(r.content) for r in rs)
RECURSIVE SumLen(_)
SumLen(rs) == IF rs = <<>> THEN 0 ELSE Head(rs).content.len + SumLen(Tail(rs))

\* sum(len(r.content) ** 2 for r in rs)
RECURSIVE SumSqLen(_)
SumSqLen(rs) ==
    IF rs = <<>> THEN 0
    ELSE Head(rs).content.len * Head(rs).content.len + SumSqLen(Tail(rs))

\* sum(r.confidence for r in rs)
RECURSIVE SumConfidence(_)
SumConfidence(rs) == IF rs = <<>> THEN 0 ELSE Head(rs).confidence + SumConfidence(Tail(rs))

\* AgentResponse(agent_id, response["content"], response.get("confidence_score", 0.8), ...)
AgentResponse(agent_id, reply) ==
    [agent_id |-> agent_id,
     content |-> reply.content,
     confidence |-> IF "confidence_score" \in DOMAIN reply
                    THEN reply.confidence_score ELSE DefaultConfidence]

\* {r.agent_id: r.content for r in rs}
IndividualResponses(rs) ==
    [a \in {rs[i].agent_id : i \in 1..Len(rs)} |->
        LET last == CHOOSE i \in 1..Len(rs) :
                        /\ rs[i].agent_id = a
                        /\ \A j \in (i+1)..Len(rs) : rs[j].agent_id # a
        IN rs[last].content]

ZeroDivisionError == [type |-> "ZeroDivisionError"]

\* _calculate_consensus_score: max(0, 1 - variance / avg_length ** 2), capped at 1.
\* With S the sum and Q the sum of squares of the n lengths,
\* variance / avg ** 2 = (n*Q - S*S) / (S*S); the division raises when S = 0.
ConsensusScore(rs) ==
    LET n == Len(rs)
        S == SumLen(rs)
        Q == SumSqLen(rs)
    IN IF n < 2 THEN [raised |-> FALSE, num |-> 1, den |-> 1]
       ELSE IF S = 0 THEN [raised |-> TRUE, num |-> 0, den |-> 1]
       ELSE [raised |-> FALSE,
             num |-> Min(Max(0, 2 * S * S - n * Q), S * S),
             den |-> S * S]

\* score > p / q
ScoreAbove(score, p, q) == score.num * q > p * score.den

\* another threshold: consensus_score > 0.999
HighConsensusStricter(score) == score.num * 1000 > 999 * score.den

\* consensus_score > 0.8
HighConsensus(score) == ScoreAbove(score, 8, 10)

\* the comparison turned around: a change above 10% taken as convergence
CheckDebateConvergenceInverted(cur, prev) ==
    IF cur = <<>> \/ prev = <<>> THEN [raised |-> FALSE, value |-> FALSE]
    ELSE IF SumLen(prev) = 0 THEN [raised |-> TRUE, value |-> FALSE]
    ELSE [raised |-> FALSE,
          value |-> 10 * Abs(SumLen(cur) * Len(prev) - SumLen(prev) * Len(cur))
                        > SumLen(prev) * Len(cur)]

\* _check_debate_convergence: abs(cur_avg - prev_avg) / prev_avg < 0.1;
\* the division raises when the previous round's lengths sum to 0.
CheckDebateConvergence(cur, prev) ==
    IF cur = <<>> \/ prev = <<>> THEN [raised |-> FALSE, value |-> FALSE]
    ELSE IF SumLen(prev) = 0 THEN [raised |-> TRUE, value |-> FALSE]
    ELSE [raised |-> FALSE,
          value |-> 10 * Abs(SumLen(cur) * Len(prev) - SumLen(prev) * Len(cur))
                        < SumLen(prev) * Len(cur)]

\* _calculate_collaboration_quality: avg_confidence * 0.6 + diversity * 0.4, capped at 1
CollaborationQuality(rs) ==
    IF rs = <<>> THEN [num |-> 0, den |-> 1]
    ELSE LET n == Len(rs)
             d == Cardinality({Take(rs[i].content, DiversityPrefix) : i \in 1..n})
             q == 6 * SumConfidence(rs) + 400 * d
         IN [num |-> Min(q, 1000 * n), den |-> 1000 * n]

(***************************************************************************)
(* Prompts and contexts handed to process_query                            *)
(***************************************************************************)
\* task.query
OriginalPrompt(t) == [kind |-> "original", query |-> t.query, excerpts |-> <<>>]

\* the same prompt with the whole response in place of content[:200]
SequentialPromptWhole(t, agent_id, content) ==
    [kind |-> "sequential", query |-> t.query,
     excerpts |-> <<[agent_id |-> agent_id, text |-> content]>>]

\* f"{task.query}\n\nPrevious agent ({agent_id}) responded: {content[:200]}..."
SequentialPrompt(t, agent_id, content) ==
    [kind |-> "sequential", query |-> t.query,
     excerpts |-> <<[agent_id |-> agent_id, text |-> Take(content, SequentialExcerpt)]>>]

\* f"- {r.agent_id}: {r.content[:150]}...\n" for r in rs
ExcerptLines(rs) ==
    [i \in 1..Len(rs) |->
        [agent_id |-> rs[i].agent_id, text |-> Take(rs[i].content, RoundExcerpt)]]

\* [r for r in initial_responses if r.agent_id != agent_id]
OtherResponses(initial, agent_id) ==
    LET NotOwn(r) == r.agent_id # agent_id IN SelectSeq(initial, NotOwn)

\* debate_query
DebateQuery(t, agent_id, initial) ==
    [kind |-> "debate", query |-> t.query,
     excerpts |-> ExcerptLines(OtherResponses(initial, agent_id))]

\* consensus_query
ConsensusQuery(t, current) ==
    [kind |-> "consensus", query |-> t.query, excerpts |-> ExcerptLines(current)]

\* responses[-3:] without the slice: the whole history
PreviousResponsesAll(rs) == rs

\* responses[-3:] if responses else []
PreviousResponses(rs) == IF rs # <<>> THEN PyLast(rs, HistoryWindow) ELSE <<>>

\* the "collaboration_context" of the sequential loop, position i (1-based)
SequentialContext(t, i, rs) ==
    [mode |-> "sequential", position |-> i, total_agents |-> Len(t.agents),
     previous_responses |-> PreviousResponses(rs)]

ParallelContext(t) == [mode |-> "parallel", total_agents |-> Len(t.agents)]

RoundContext(t, iteration) == [mode |-> t.mode, iteration |-> iteration]

(***************************************************************************)
(* What each protocol returns or raises once its last round is over        *)
(***************************************************************************)
Fails(err) == [raised |-> TRUE, error |-> err, result |-> NoResult]
Succeeds(res) == [raised |-> FALSE, error |-> NoError, result |-> res]

ScoreValue(score) == [num |-> score.num, den |-> score.den]

\* return {...} of _sequential_collaboration
SequentialOutcome(t, rs) ==
    IF ConsensusScore(rs).raised THEN Fails(ZeroDivisionError)
    ELSE Succeeds(
        [task_id |-> t.task_id, mode |-> t.mode,
         individual_responses |-> IndividualResponses(rs),
         collaboration_quality |-> CollaborationQuality(rs),
         consensus_score |-> ScoreValue(ConsensusScore(rs)),
         total_iterations |-> 1,
         participating_agents |-> t.agents])

\* the responses numbered among the successes only: the k-th collected
\* response attributed to the k-th participant
CollectParallelShifted(t, data) ==
    LET Answered(i) == data[i] # Raised
        idx == SelectSeq([i \in 1..Len(t.agents) |-> i], Answered)
    IN [k \in 1..Len(idx) |-> AgentResponse(t.agents[k], data[idx[k]])]

\* the loop over responses_data: exceptions are logged and skipped
CollectParallel(t, data) ==
    LET Answered(i) == data[i] # Raised
        idx == SelectSeq([i \in 1..Len(t.agents) |-> i], Answered)
    IN [k \in 1..Len(idx) |-> AgentResponse(t.agents[idx[k]], data[idx[k]])]

\* return {...} of _parallel_collaboration
ParallelOutcome(t, data) ==
    LET rs == CollectParallel(t, data)
    IN IF ConsensusScore(rs).raised THEN Fails(ZeroDivisionError)
       ELSE Succeeds(
           [task_id |-> t.task_id, mode |-> t.mode,
            individual_responses |-> IndividualResponses(rs),
            collaboration_quality |-> CollaborationQuality(rs),
            consensus_score |-> ScoreValue(ConsensusScore(rs)),
            total_iterations |-> 1,
            participating_agents |-> [i \in 1..Len(rs) |-> rs[i].agent_id]])

\* the debate result with the quality taken over the last round only
DebateOutcomeLastRound(t, all, iteration) ==
    LET latest == PyLast(all, Len(t.agents))
    IN IF t.agents = <<>> THEN Fails(ZeroDivisionError)
       ELSE IF ConsensusScore(latest).raised THEN Fails(ZeroDivisionError)
       ELSE Succeeds(
           [task_id |-> t.task_id, mode |-> t.mode,
            individual_responses |-> IndividualResponses(latest),
            collaboration_quality |-> CollaborationQuality(latest),
            consensus_score |-> ScoreValue(ConsensusScore(latest)),
            total_iterations |-> iteration,
            participating_agents |-> t.agents,
            debate_rounds |-> iteration])

\* _synthesize_debate_responses, then return {...} of _debate_collaboration;
\* the synthesis divides len(responses) by len(task.agents)
DebateOutcome(t, all, iteration) ==
    LET latest == PyLast(all, Len(t.agents))
    IN IF t.agents = <<>> THEN Fails(ZeroDivisionError)
       ELSE IF ConsensusScore(latest).raised THEN Fails(ZeroDivisionError)
       ELSE Succeeds(
           [task_id |-> t.task_id, mode |-> t.mode,
            individual_responses |-> IndividualResponses(latest),
            collaboration_quality |-> CollaborationQuality(all),
            consensus_score |-> ScoreValue(ConsensusScore(latest)),
            total_iterations |-> iteration,
            participating_agents |-> t.agents,
            debate_rounds |-> iteration])

\* return {...} of _consensus_collaboration
ConsensusOutcome(t, current, all, iteration) ==
    IF ConsensusScore(current).raised THEN Fails(ZeroDivisionError)
    ELSE Succeeds(
        [task_id |-> t.task_id, mode |-> t.mode,
         individual_responses |-> IndividualResponses(current),
         collaboration_quality |-> CollaborationQuality(all),
         consensus_score |-> ScoreValue(ConsensusScore(current)),
         total_iterations |-> iteration,
         participating_agents |-> t.agents,
         consensus_achieved |-> HighConsensus(ConsensusScore(current))])

(***************************************************************************)
(* State after MultiAgentCoordinator() and AgentCoordinator()              *)
(***************************************************************************)
Init ==
    /\ active_agents = <<>>
    /\ active_collaborations = {}
    /\ pc = "idle"
    /\ task = NoTask
    /\ current_iteration = 0
    /\ responses = <<>>
    /\ current_responses = <<>>
    /\ all_responses = <<>>
    /\ current_context = NoPrompt
    /\ outstanding = {}
    /\ responses_data = <<>>
    /\ elapsed = FALSE
    /\ calls = <<>>
    /\ result = NoResult
    /\ error = NoError
    /\ paper_agents = <<>>
    /\ agent_relationships = <<>>
    /\ conversations = <<>>
    /\ last_call = NoCall
    /\ send_pc = "idle"
    /\ send_call = NoSend
    /\ send_targets = <<>>
    /\ send_responses = <<>>
    /\ asked = <<>>
    /\ send_result = NoCall
    /\ connected_agents = <<>>
    /\ websockets = [w \in McpSockets |-> [state |-> "new", agent_id |-> None]]
    /\ received = <<>>
    /\ active_connections = <<>>
    /\ connection_metadata = <<>>
    /\ rooms = <<>>
    /\ accepted = {}
    /\ logged = NoCall
    /\ _handlers = <<>>
    /\ publish_pc = "idle"
    /\ published = NoEvent
    /\ tasks = <<>>

(***************************************************************************)
(* The registry                                                            *)
(***************************************************************************)
\* self.active_agents[agent_id] = agent
Registered(registry, agent_id, agent) ==
    [a \in DOMAIN registry \cup {agent_id} |->
        IF a = agent_id THEN agent ELSE registry[a]]

\* self.active_agents.clear() in place of the del
UnregisteredAll(registry, agent_id) == <<>>

\* if agent_id in self.active_agents: del self.active_agents[agent_id]
Unregistered(registry, agent_id) ==
    [a \in DOMAIN registry \ {agent_id} |-> registry[a]]

register_agent(agent_id, agent) ==
    /\ active_agents' = Registered(active_agents, agent_id, agent)
    /\ UNCHANGED <<coordinator_vars, service_vars, active_collaborations, pc, task, current_iteration, responses,
                   current_responses, all_responses, current_context, outstanding,
                   responses_data, elapsed, calls, result, error>>

unregister_agent(agent_id) ==
    /\ active_agents' = Unregistered(active_agents, agent_id)
    /\ UNCHANGED <<coordinator_vars, service_vars, active_collaborations, pc, task, current_iteration, responses,
                   current_responses, all_responses, current_context, outstanding,
                   responses_data, elapsed, calls, result, error>>

(***************************************************************************)
(* start_collaboration: leaving the coroutine, issuing a query             *)
(***************************************************************************)
\* the call ends: a result is returned after the clean-up of lines 89-90, or
\* the exception is logged and re-raised (lines 95-97)
Finish(t, collaborations, out) ==
    /\ pc' = IF out.raised THEN "raised" ELSE "returned"
    /\ result' = out.result
    /\ error' = out.error
    /\ active_collaborations' =
          IF out.raised THEN collaborations ELSE collaborations \ {t.task_id}
    /\ outstanding' = {}
    /\ calls' = calls

CallRecord(t, i, iteration, prompt, context) ==
    [agent_id |-> t.agents[i], position |-> i, iteration |-> iteration,
     prompt |-> prompt, context |-> context]

\* agent = self.active_agents[agent_id]; await agent.process_query(prompt, context)
Query(t, collaborations, i, iteration, prompt, context) ==
    IF t.agents[i] \in DOMAIN active_agents
    THEN /\ pc' = t.mode
         /\ calls' = Append(calls, CallRecord(t, i, iteration, prompt, context))
         /\ outstanding' = {i}
         /\ active_collaborations' = collaborations
         /\ UNCHANGED <<result, error>>
    ELSE Finish(t, collaborations, Fails([type |-> "KeyError", key |-> t.agents[i]]))

\* the local variables of the protocol
Locals(iteration, rs, current, all, prompt) ==
    /\ current_iteration' = iteration
    /\ responses' = rs
    /\ current_responses' = current
    /\ all_responses' = all
    /\ current_context' = prompt

(***************************************************************************)
(* The four protocols, from one await to the next                          *)
(***************************************************************************)
\* the loop taken from the last participant to the first
ParticipantReversed(t, i) == t.agents[Len(t.agents) + 1 - i]

\* for i, agent_id in enumerate(task.agents): the participant at position i (1-based)
Participant(t, i) == t.agents[i]

\* the validation stopping at the first absent id
MissingAgentsFirstOnly(t, registry) ==
    LET Absent(a) == a \notin DOMAIN registry
    IN IF SelectSeq(t.agents, Absent) = <<>> THEN <<>>
       ELSE <<Head(SelectSeq(t.agents, Absent))>>

\* [agent_id for agent_id in task.agents if agent_id not in self.active_agents]
MissingAgents(t, registry) ==
    LET Absent(a) == a \notin DOMAIN registry IN SelectSeq(t.agents, Absent)

AgentsNotAvailable(missing) ==
    [type |-> "ValueError", reason |-> "agents_not_available", agents |-> missing]

TimedOut == [type |-> "ValueError", reason |-> "timed_out"]

AgentError(agent_id) == [type |-> "AgentError", agent_id |-> agent_id]

\* _sequential_collaboration at the head of its for loop, position i
SequentialLoop(t, collaborations, i, rs, prompt) ==
    /\ Locals(0, rs, <<>>, <<>>, prompt)
    /\ IF i <= Len(t.agents)
       THEN Query(t, collaborations, i, 1, prompt, SequentialContext(t, i, rs))
       ELSE Finish(t, collaborations, SequentialOutcome(t, rs))

\* _parallel_collaboration up to asyncio.gather: one coroutine per participant
ParallelFanOut(t, collaborations) ==
    /\ Locals(0, <<>>, <<>>, <<>>, OriginalPrompt(t))
    /\ pc' = "parallel"
    /\ calls' = calls \o [i \in 1..Len(t.agents) |->
                            CallRecord(t, i, 1, OriginalPrompt(t), ParallelContext(t))]
    /\ outstanding' = 1..Len(t.agents)
    /\ active_collaborations' = collaborations
    /\ UNCHANGED <<result, error>>

\* the assignment of line 271 left out: the first round stays the reference
StaleResponses(round_responses, initial_responses) == initial_responses

\* initial_responses = round_responses  (use latest responses for next round)
LatestResponses(round_responses, initial_responses) == round_responses

\* _debate_collaboration at the head of its while loop
DebateRound(t, collaborations, iteration, initial, all) ==
    IF iteration < t.max_iterations
    THEN /\ Locals(iteration, <<>>, initial, all, DebateQuery(t, Participant(t, 1), initial))
         /\ Query(t, collaborations, 1, iteration + 1,
                  DebateQuery(t, Participant(t, 1), initial),
                  RoundContext(t, iteration + 1))
    ELSE /\ Locals(iteration, <<>>, initial, all, current_context)
         /\ Finish(t, collaborations, DebateOutcome(t, all, iteration))

\* _consensus_collaboration at the head of its while loop
ConsensusRound(t, collaborations, iteration, current, all) ==
    IF iteration < t.max_iterations
    THEN IF ConsensusScore(current).raised
         THEN /\ Locals(iteration, <<>>, current, all, current_context)
              /\ Finish(t, collaborations, Fails(ZeroDivisionError))
         ELSE IF HighConsensus(ConsensusScore(current))
         THEN /\ Locals(iteration, <<>>, current, all, current_context)
              /\ Finish(t, collaborations, ConsensusOutcome(t, current, all, iteration))
         ELSE /\ Locals(iteration, <<>>, current, all, ConsensusQuery(t, current))
              /\ Query(t, collaborations, 1, iteration + 1,
                       ConsensusQuery(t, current), RoundContext(t, iteration + 1))
    ELSE /\ Locals(iteration, <<>>, current, all, current_context)
         /\ Finish(t, collaborations, ConsensusOutcome(t, current, all, iteration))

\* start_collaboration(task) up to its first await
start_collaboration(t) ==
    /\ pc = "idle"
    /\ task' = t
    /\ elapsed' = FALSE
    /\ responses_data' = IF t.mode = "parallel"
                         THEN [i \in 1..Len(t.agents) |-> Pending] ELSE <<>>
    /\ UNCHANGED <<coordinator_vars, service_vars, active_agents>>
    /\ LET collaborations == active_collaborations \cup {t.task_id}
           missing == MissingAgents(t, active_agents)
       IN IF missing # <<>>
          THEN /\ Locals(0, <<>>, <<>>, <<>>, NoPrompt)
               /\ Finish(t, collaborations, Fails(AgentsNotAvailable(missing)))
          ELSE CASE t.mode = "sequential" ->
                      SequentialLoop(t, collaborations, 1, <<>>, OriginalPrompt(t))
                 [] t.mode = "parallel" ->
                      ParallelFanOut(t, collaborations)
                 [] t.mode = "debate" /\ t.agents # <<>> ->
                      /\ Locals(0, <<>>, <<>>, <<>>, OriginalPrompt(t))
                      /\ Query(t, collaborations, 1, 1, OriginalPrompt(t), RoundContext(t, 1))
                 [] t.mode = "debate" /\ t.agents = <<>> ->
                      \* every round is empty: the loop runs to max_iterations without an await
                      /\ Locals(Max(1, t.max_iterations), <<>>, <<>>, <<>>, NoPrompt)
                      /\ Finish(t, collaborations,
                                DebateOutcome(t, <<>>, Max(1, t.max_iterations)))
                 [] t.mode = "consensus" /\ t.agents # <<>> ->
                      /\ Locals(0, <<>>, <<>>, <<>>, OriginalPrompt(t))
                      /\ Query(t, collaborations, 1, 1, OriginalPrompt(t), RoundContext(t, 1))
                 [] t.mode = "consensus" /\ t.agents = <<>> ->
                      ConsensusRound(t, collaborations, 1, <<>>, <<>>)

\* the awaited process_query of the sequential loop returns
SequentialStep(reply) ==
    /\ pc = "sequential"
    /\ \E i \in outstanding :
          LET agent_id == Participant(task, i)
          IN SequentialLoop(task, active_collaborations, i + 1,
                            Append(responses, AgentResponse(agent_id, reply)),
                            SequentialPrompt(task, agent_id, reply.content))
    /\ UNCHANGED <<coordinator_vars, service_vars, active_agents, task, responses_data, elapsed>>

\* one of the gathered coroutines ends, with a reply or an exception
ParallelAgentDone(i, outcome) ==
    /\ pc = "parallel"
    /\ i \in outstanding
    /\ responses_data' = [responses_data EXCEPT ![i] = outcome]
    /\ outstanding' = outstanding \ {i}
    /\ UNCHANGED <<coordinator_vars, service_vars, active_agents, active_collaborations, pc, task, current_iteration,
                   responses, current_responses, all_responses, current_context,
                   elapsed, calls, result, error>>

\* gather is complete: wait_for returns responses_data
ParallelFanIn ==
    /\ pc = "parallel"
    /\ outstanding = {}
    /\ Locals(0, CollectParallel(task, responses_data), <<>>, <<>>, current_context)
    /\ Finish(task, active_collaborations, ParallelOutcome(task, responses_data))
    /\ UNCHANGED <<coordinator_vars, service_vars, active_agents, task, responses_data, elapsed>>

\* wait_for gives up after task.timeout seconds: the gather is cancelled
ParallelTimeout ==
    /\ pc = "parallel"
    /\ outstanding # {}
    /\ elapsed' = TRUE
    /\ responses_data' = <<>>
    /\ Locals(0, <<>>, <<>>, <<>>, current_context)
    /\ Finish(task, active_collaborations, Fails(TimedOut))
    /\ UNCHANGED <<coordinator_vars, service_vars, active_agents, task>>

\* the awaited process_query of a debate round returns
DebateStep(reply) ==
    /\ pc = "debate"
    /\ \E i \in outstanding :
          LET rs == Append(responses, AgentResponse(Participant(task, i), reply))
              all == all_responses \o rs
              prompt == IF current_iteration = 0 THEN OriginalPrompt(task)
                        ELSE DebateQuery(task, Participant(task, i + 1), current_responses)
          IN IF i < Len(task.agents)
             THEN /\ Locals(current_iteration, rs, current_responses, all_responses, prompt)
                  /\ Query(task, active_collaborations, i + 1, current_iteration + 1,
                           prompt, RoundContext(task, current_iteration + 1))
             ELSE IF current_iteration = 0
             THEN DebateRound(task, active_collaborations, 1, rs, all)
             ELSE IF CheckDebateConvergence(rs, current_responses).raised
             THEN /\ Locals(current_iteration + 1, rs, current_responses, all, current_context)
                  /\ Finish(task, active_collaborations, Fails(ZeroDivisionError))
             ELSE IF CheckDebateConvergence(rs, current_responses).value
             THEN /\ Locals(current_iteration + 1, rs, current_responses, all, current_context)
                  /\ Finish(task, active_collaborations,
                            DebateOutcome(task, all, current_iteration + 1))
             ELSE DebateRound(task, active_collaborations, current_iteration + 1,
                              LatestResponses(rs, current_responses), all)
    /\ UNCHANGED <<coordinator_vars, service_vars, active_agents, task, responses_data, elapsed>>

\* the awaited process_query of a consensus round returns
ConsensusStep(reply) ==
    /\ pc = "consensus"
    /\ \E i \in outstanding :
          LET rs == Append(responses, AgentResponse(Participant(task, i), reply))
          IN IF i < Len(task.agents)
             THEN /\ Locals(current_iteration, rs, current_responses, all_responses,
                            current_context)
                  /\ Query(task, active_collaborations, i + 1, current_iteration + 1,
                           current_context, RoundContext(task, current_iteration + 1))
             ELSE ConsensusRound(task, active_collaborations, current_iteration + 1,
                                 rs, all_responses \o rs)
    /\ UNCHANGED <<coordinator_vars, service_vars, active_agents, task, responses_data, elapsed>>

\* the failed query is issued once more to the same participant
AgentRaisesRetry ==
    /\ pc \in {"sequential", "debate", "consensus"}
    /\ outstanding # {}
    /\ calls' = Append(calls, calls[Len(calls)])
    /\ UNCHANGED <<coordinator_vars, service_vars, active_agents, active_collaborations, pc, task, current_iteration,
                   responses, current_responses, all_responses, current_context,
                   outstanding, responses_data, elapsed, result, error>>

\* the awaited process_query raises: nothing in the three loops catches it
AgentRaises ==
    /\ pc \in {"sequential", "debate", "consensus"}
    /\ \E i \in outstanding :
          Finish(task, active_collaborations, Fails(AgentError(Participant(task, i))))
    /\ UNCHANGED <<coordinator_vars, service_vars, active_agents, task, current_iteration, responses, current_responses,
                   all_responses, current_context, responses_data, elapsed>>

\* task.timeout seconds pass while a call of one of the three loops is awaited:
\* no timer was set, nothing happens
TimeoutElapses ==
    /\ pc \in {"sequential", "debate", "consensus"}
    /\ outstanding # {}
    /\ ~elapsed
    /\ elapsed' = TRUE
    /\ UNCHANGED <<coordinator_vars, service_vars, active_agents, active_collaborations, pc, task, current_iteration,
                   responses, current_responses, all_responses, current_context,
                   outstanding, responses_data, calls, result, error>>

Next ==
    \/ \E a \in AgentIds, h \in Handles : register_agent(a, h)
    \/ \E a \in AgentIds : unregister_agent(a)
    \/ \E t \in Tasks : start_collaboration(t)
    \/ \E r \in Replies : SequentialStep(r)
    \/ \E i \in 1..Cardinality(AgentIds), o \in Replies \cup {Raised} : ParallelAgentDone(i, o)
    \/ ParallelFanIn
    \/ ParallelTimeout
    \/ \E r \in Replies : DebateStep(r)
    \/ \E r \in Replies : ConsensusStep(r)
    \/ AgentRaises
    \/ TimeoutElapses

Spec == Init /\ [][Next]_vars

(***************************************************************************)
(* AgentCoordinator (ai-service/multi-agent/agent_coordinator.py): its     *)
(* registry of paper agents and its conversations.  register_agent,        *)
(* remove_agent and start_conversation have no suspension point and are    *)
(* one step each; send_message_to_conversation is followed from one        *)
(* awaited agent.query to the next.                                        *)
(***************************************************************************)
MaxConversations == 2
MaxSends == 1

PaperIds == {"p1", "p2"}
Titles == {"T1", "T2"}

\* paper_data: the "id" and the "title" of the dict handed to register_agent
PaperData == [id : PaperIds, title : Titles]

ConversationTypes == {"comparison", "synthesis", "debate", "collaboration"}
PaperLists == UNION {Perms(S) : S \in SUBSET PaperIds}

\* sender_id: "user", None, or a paper id
Unspecified == "None"
Senders == {"user", Unspecified} \cup PaperIds

\* response["response"] of agent.query
Answers == {"r"}

\* PaperAgentFactory.create_agent(paper_data)
CreateAgent(paper_data) == [paper_id |-> paper_data.id, title |-> paper_data.title]

\* AgentCoordinator.register_agent(paper_data)
coordinator_register_agent(paper_data) ==
    /\ IF paper_data.id \in DOMAIN paper_agents
       THEN /\ UNCHANGED <<paper_agents, agent_relationships>>
            /\ last_call' = [op |-> "register_agent", paper_id |-> paper_data.id,
                             log |-> "already registered", returned |-> paper_data.id]
       ELSE /\ paper_agents' = Registered(paper_agents, paper_data.id, CreateAgent(paper_data))
            /\ agent_relationships' = Registered(agent_relationships, paper_data.id, {})
            /\ last_call' = [op |-> "register_agent", paper_id |-> paper_data.id,
                             log |-> "registered", returned |-> paper_data.id]
    /\ UNCHANGED <<backend_vars, service_vars, conversations, send_pc, send_call, send_targets,
                   send_responses, asked, send_result>>

\* AgentCoordinator.remove_agent(paper_id)
remove_agent(paper_id) ==
    /\ IF paper_id \in DOMAIN paper_agents
       THEN /\ paper_agents' = Unregistered(paper_agents, paper_id)
            /\ agent_relationships' = Unregistered(agent_relationships, paper_id)
            /\ last_call' = [op |-> "remove_agent", paper_id |-> paper_id, log |-> "removed"]
       ELSE /\ UNCHANGED <<paper_agents, agent_relationships>>
            /\ last_call' = [op |-> "remove_agent", paper_id |-> paper_id, log |-> "none"]
    /\ UNCHANGED <<backend_vars, service_vars, conversations, send_pc, send_call, send_targets,
                   send_responses, asked, send_result>>

\* [pid for pid in paper_ids if pid not in self.active_agents]
MissingPapers(paper_ids, registry) ==
    LET Absent(p) == p \notin DOMAIN registry IN SelectSeq(paper_ids, Absent)

\* AgentConversation(...) after _initialize_conversation: one system message.
\* conversation_id is f"conv_{len(self.conversations)}_{topic[:20]}": the
\* number of conversations created before it stands for it.
AgentConversation(conversation_id, conversation_type, paper_ids) ==
    [conversation_id |-> conversation_id,
     conversation_type |-> conversation_type,
     participating_agents |-> paper_ids,
     messages |-> <<[type |-> "system"]>>,
     status |-> "active"]

\* AgentCoordinator.start_conversation(paper_ids, topic, conversation_type)
start_conversation(paper_ids, conversation_type) ==
    /\ Len(conversations) < MaxConversations
    /\ LET missing == MissingPapers(paper_ids, paper_agents)
           conversation_id == Len(conversations)
       IN IF missing # <<>>
          THEN /\ last_call' = [op |-> "start_conversation", raised |-> TRUE,
                                error |-> [type |-> "ValueError", agents |-> missing]]
               /\ UNCHANGED conversations
          ELSE /\ conversations' =
                     Append(conversations,
                            AgentConversation(conversation_id, conversation_type, paper_ids))
               /\ last_call' = [op |-> "start_conversation", raised |-> FALSE,
                                returned |-> conversation_id]
    /\ UNCHANGED <<backend_vars, service_vars, paper_agents, agent_relationships, send_pc, send_call,
                   send_targets, send_responses, asked, send_result>>

\* self.conversations[conversation_id]
Conversation(conversation_id) == conversations[conversation_id + 1]

\* conversation.messages.append(message)
WithMessage(all, conversation_id, message) ==
    [all EXCEPT ![conversation_id + 1].messages = Append(@, message)]

\* send_message_to_conversation ends: it returns a dict or re-raises
SendEnds(all, queried, outcome) ==
    /\ send_pc' = IF outcome.raised THEN "raised" ELSE "returned"
    /\ send_result' = outcome
    /\ conversations' = all
    /\ asked' = queried

SendKeyError(paper_id) ==
    [raised |-> TRUE, error |-> [type |-> "KeyError", key |-> paper_id]]

ConversationNotFound(conversation_id) ==
    [raised |-> TRUE,
     error |-> [type |-> "ValueError", conversation_id |-> conversation_id]]

\* return {...} of _handle_user_message and of _handle_agent_message
SendReturns(call, all, rs) ==
    IF call.kind = "user"
    THEN [raised |-> FALSE,
          conversation_id |-> call.conversation_id,
          agent_responses |-> rs,
          conversation_type |-> all[call.conversation_id + 1].conversation_type]
    ELSE [raised |-> FALSE,
          conversation_id |-> call.conversation_id,
          sender |-> [agent_id |-> call.sender_id, paper_title |-> call.sender_title],
          responses |-> rs]

\* the for loop of _handle_user_message / _handle_agent_message at its head,
\* the targets in queried done:
\* agent = self.active_agents[paper_id]; await agent.query(context_prompt)
SendLoop(call, all, targets, rs, queried) ==
    /\ send_responses' = rs
    /\ IF Len(queried) >= Len(targets)
       THEN SendEnds(all, queried, SendReturns(call, all, rs))
       ELSE LET paper_id == targets[Len(queried) + 1]
            IN IF paper_id \notin DOMAIN paper_agents
               THEN SendEnds(all, queried, SendKeyError(paper_id))
               ELSE /\ send_pc' = "query"
                    /\ asked' = Append(queried, [paper_id |-> paper_id,
                                                 agent |-> paper_agents[paper_id]])
                    /\ conversations' = all
                    /\ UNCHANGED send_result

\* [pid for pid in conversation.participating_agents if pid != sender_id]
OtherAgents(paper_ids, sender_id) ==
    LET NotSender(p) == p # sender_id IN SelectSeq(paper_ids, NotSender)

\* the arguments of the call, the handler chosen for it and, for an agent
\* message, sender_agent.paper_context.title
SendCall(number, conversation_id, sender_id, kind, title) ==
    [op |-> "send_message_to_conversation", number |-> number,
     conversation_id |-> conversation_id, sender_id |-> sender_id,
     kind |-> kind, sender_title |-> title]

\* _handle_user_message up to its first await (also _handle_broadcast_message)
HandleUserMessage(call, conversation) ==
    /\ send_call' = call
    /\ send_targets' = conversation.participating_agents
    /\ SendLoop(call,
                WithMessage(conversations, call.conversation_id, [type |-> "user"]),
                conversation.participating_agents, <<>>, <<>>)

\* _handle_agent_message up to its first await
HandleAgentMessage(call, conversation) ==
    /\ send_call' = call
    /\ IF call.sender_id \notin DOMAIN paper_agents
       THEN /\ send_targets' = <<>>
            /\ send_responses' = <<>>
            /\ SendEnds(conversations, <<>>, SendKeyError(call.sender_id))
       ELSE /\ send_targets' = OtherAgents(conversation.participating_agents, call.sender_id)
            /\ SendLoop(call,
                        WithMessage(conversations, call.conversation_id,
                                    [type |-> "agent", agent_id |-> call.sender_id]),
                        OtherAgents(conversation.participating_agents, call.sender_id),
                        <<>>, <<>>)

\* AgentCoordinator.send_message_to_conversation(conversation_id, message, sender_id)
\* up to its first await
send_message_to_conversation(conversation_id, sender_id) ==
    /\ send_pc # "query"
    /\ send_call.number < MaxSends
    /\ LET number == send_call.number + 1
       IN IF conversation_id >= Len(conversations)
          THEN /\ send_call' = SendCall(number, conversation_id, sender_id, "none", "")
               /\ send_targets' = <<>>
               /\ send_responses' = <<>>
               /\ SendEnds(conversations, <<>>, ConversationNotFound(conversation_id))
          ELSE LET conversation == Conversation(conversation_id)
               IN IF sender_id = "user"
                  THEN HandleUserMessage(
                           SendCall(number, conversation_id, sender_id, "user", ""),
                           conversation)
                  ELSE IF sender_id \in Range(conversation.participating_agents)
                  THEN HandleAgentMessage(
                           SendCall(number, conversation_id, sender_id, "agent",
                                    IF sender_id \in DOMAIN paper_agents
                                    THEN paper_agents[sender_id].title ELSE ""),
                           conversation)
                  ELSE HandleUserMessage(
                           SendCall(number, conversation_id, sender_id, "user", ""),
                           conversation)
    /\ UNCHANGED <<backend_vars, service_vars, paper_agents, agent_relationships, last_call>>

\* responses.append({"agent_id", "paper_title", "response"})
Responded(queried, answer) ==
    [agent_id |-> queried.paper_id, paper_title |-> queried.agent.title,
     response |-> answer]

\* responses.append({"agent_id", "error"}): _handle_user_message only
Failed(queried) == [agent_id |-> queried.paper_id, error |-> "e"]

\* the awaited agent.query returns
QueryReturns(answer) ==
    /\ send_pc = "query"
    /\ LET queried == asked[Len(asked)]
       IN SendLoop(send_call,
                   WithMessage(conversations, send_call.conversation_id,
                               [type |-> "agent", agent_id |-> queried.paper_id]),
                   send_targets,
                   Append(send_responses, Responded(queried, answer)),
                   asked)
    /\ UNCHANGED <<backend_vars, service_vars, paper_agents, agent_relationships, last_call,
                   send_call, send_targets>>

\* the awaited agent.query raises: the except of the loop logs it;
\* _handle_user_message records the error, _handle_agent_message records nothing
QueryRaises ==
    /\ send_pc = "query"
    /\ SendLoop(send_call, conversations, send_targets,
                IF send_call.kind = "user"
                THEN Append(send_responses, Failed(asked[Len(asked)]))
                ELSE send_responses,
                asked)
    /\ UNCHANGED <<backend_vars, service_vars, paper_agents, agent_relationships, last_call,
                   send_call, send_targets>>

(***************************************************************************)
(* The two registries alone, with several handles per id                   *)
(***************************************************************************)
RegistryHandles == Handles \cup {"h2", "h3"}

RegistryNext ==
    \/ \E a \in AgentIds, h \in RegistryHandles : register_agent(a, h)
    \/ \E a \in AgentIds : unregister_agent(a)
    \/ \E d \in PaperData : coordinator_register_agent(d)
    \/ \E p \in PaperIds : remove_agent(p)

RegistrySpec == Init /\ [][RegistryNext]_vars

(***************************************************************************)
(* AgentCoordinator with its conversations                                 *)
(***************************************************************************)
ConversationNext ==
    \/ \E d \in PaperData : coordinator_register_agent(d)
    \/ \E p \in PaperIds : remove_agent(p)
    \/ \E ps \in PaperLists, ty \in ConversationTypes : start_conversation(ps, ty)
    \/ \E c \in 0..MaxConversations, s \in Senders : send_message_to_conversation(c, s)
    \/ \E a \in Answers : QueryReturns(a)
    \/ QueryRaises

ConversationSpec == Init /\ [][ConversationNext]_vars

(***************************************************************************)
(* The sequential protocol over participant lists longer than the history  *)
(* window of its context                                                   *)
(***************************************************************************)
ChainAgentIds == AgentIds \cup {"a4", "a5"}

ChainTasks ==
    [task_id : {"t1"}, query : {TheQuery},
     agents : {<<"a1", "a2", "a3", "a4", "a5">>, <<"a5", "a3", "a1", "a2">>},
     mode : {"sequential"}, max_iterations : {MaxIter}]

SequentialNext ==
    \/ \E a \in ChainAgentIds, h \in Handles : register_agent(a, h)
    \/ \E a \in ChainAgentIds : unregister_agent(a)
    \/ \E t \in ChainTasks : start_collaboration(t)
    \/ \E r \in Replies : SequentialStep(r)
    \/ AgentRaises
    \/ TimeoutElapses

SequentialSpec == Init /\ [][SequentialNext]_vars

(***************************************************************************)
(* MCPServer: one _handle_connection coroutine per websocket               *)
(***************************************************************************)
\* a member of the MessageType enumeration
MessageType(value) == [class |-> "MessageType", value |-> value]

\* MCPMessage(**json.loads(message)): a dataclass converts nothing, the
\* "type" field is the str that was on the wire
MCPMessage(wire) ==
    [type |-> [class |-> "str", value |-> wire.type], agent_id |-> wire.agent_id]

\* self.connected_agents[agent_id] = websocket
Connected(agents, agent_id, websocket) ==
    [a \in DOMAIN agents \cup {agent_id} |->
        IF a = agent_id THEN websocket ELSE agents[a]]

\* del self.connected_agents[agent_id]
Disconnected(agents, agent_id) ==
    [a \in DOMAIN agents \ {agent_id} |-> agents[a]]

\* _handle_initialize: the registry it leaves and the agent id it returns
\* (sending the response fails silently and changes nothing)
HandleInitialize(websocket, message) ==
    IF message.agent_id = None
    THEN [connected_agents |-> connected_agents, agent_id |-> None]
    ELSE [connected_agents |-> Connected(connected_agents, message.agent_id, websocket),
          agent_id |-> message.agent_id]

\* websockets.serve starts _handle_connection for a new connection
handle_connection(websocket) ==
    /\ websockets[websocket].state = "new"
    /\ websockets' = [websockets EXCEPT ![websocket] = [state |-> "open", agent_id |-> None]]
    /\ UNCHANGED <<backend_vars, coordinator_vars, websocket_vars, bus_vars, connected_agents, received>>

\* one turn of `async for message in websocket`: parse, then dispatch on
\* mcp_message.type; requests and notifications leave the registry alone
handle_message(websocket, wire) ==
    /\ websockets[websocket].state = "open"
    /\ Len(received) < MaxReceived
    /\ received' = Append(received, [websocket |-> websocket, message |-> wire])
    /\ LET mcp_message == MCPMessage(wire)
           initialized == HandleInitialize(websocket, mcp_message)
       IN IF mcp_message.type = MessageType("initialize")
          THEN /\ connected_agents' = initialized.connected_agents
               /\ websockets' = [websockets EXCEPT ![websocket].agent_id = initialized.agent_id]
          ELSE UNCHANGED <<connected_agents, websockets>>
    /\ UNCHANGED <<backend_vars, coordinator_vars, websocket_vars, bus_vars>>

\* the connection closes: ConnectionClosed ends the loop, then the finally
\* clause runs
connection_closed(websocket) ==
    /\ websockets[websocket].state = "open"
    /\ LET agent_id == websockets[websocket].agent_id
       IN connected_agents' =
             IF agent_id # None /\ agent_id \in DOMAIN connected_agents
             THEN Disconnected(connected_agents, agent_id)
             ELSE connected_agents
    /\ websockets' = [websockets EXCEPT ![websocket].state = "closed"]
    /\ UNCHANGED <<backend_vars, coordinator_vars, websocket_vars, bus_vars, received>>

McpNext ==
    \/ \E w \in McpSockets : handle_connection(w)
    \/ \E w \in McpSockets, m \in WireMessages : handle_message(w, m)
    \/ \E w \in McpSockets : connection_closed(w)

McpSpec == Init /\ [][McpNext]_vars

(***************************************************************************)
(* WebSocketManager                                                        *)
(***************************************************************************)
\* d[key] = value
Stored(d, key, value) == [k \in DOMAIN d \cup {key} |-> IF k = key THEN value ELSE d[k]]

\* del d[key]
Deleted(d, key) == [k \in DOMAIN d \ {key} |-> d[k]]

\* the loop of disconnect over active_connections: the id stored with the
\* websocket, None when there is none
ConnectionOf(websocket) ==
    IF \E c \in DOMAIN active_connections : active_connections[c] = websocket
    THEN CHOOSE c \in DOMAIN active_connections : active_connections[c] = websocket
    ELSE None

\* members.discard(connection_id) for every room, every room kept
DiscardedKeepingRooms(rs, connection_id) ==
    [r \in DOMAIN rs |-> rs[r] \ {connection_id}]

\* members.discard(connection_id) for every room, then
\* {room_id: members for room_id, members in self.rooms.items() if members}
Discarded(rs, connection_id) ==
    LET left == [r \in DOMAIN rs |-> rs[r] \ {connection_id}]
    IN [r \in {x \in DOMAIN left : left[x] # {}} |-> left[r]]

\* await websocket.accept() (a websocket is accepted once: a second accept
\* raises before anything is stored), then the two stores
connect(websocket, connection_id, metadata) ==
    /\ websocket \notin accepted
    /\ accepted' = accepted \cup {websocket}
    /\ active_connections' = Stored(active_connections, connection_id, websocket)
    /\ connection_metadata' = Stored(connection_metadata, connection_id,
                                     IF metadata = None THEN "{}" ELSE metadata)
    /\ logged' = [event |-> "websocket_connected", connection_id |-> connection_id]
    /\ UNCHANGED <<backend_vars, coordinator_vars, mcp_vars, bus_vars, rooms>>

\* `if connection_id:` is false for None and for the empty string
disconnect(websocket) ==
    LET connection_id == ConnectionOf(websocket)
    IN /\ IF connection_id \notin {None, ""}
          THEN /\ rooms' = Discarded(rooms, connection_id)
               /\ active_connections' = Deleted(active_connections, connection_id)
               /\ connection_metadata' = Deleted(connection_metadata, connection_id)
               /\ logged' = [event |-> "websocket_disconnected",
                             connection_id |-> connection_id]
          ELSE UNCHANGED <<rooms, active_connections, connection_metadata, logged>>
       /\ UNCHANGED <<backend_vars, coordinator_vars, mcp_vars, bus_vars, accepted>>

join_room(connection_id, room_id) ==
    /\ IF connection_id \in DOMAIN active_connections
       THEN /\ rooms' = Stored(rooms, room_id,
                               (IF room_id \in DOMAIN rooms THEN rooms[room_id] ELSE {})
                                  \cup {connection_id})
            /\ logged' = [event |-> "websocket_joined_room",
                          connection_id |-> connection_id, room_id |-> room_id]
       ELSE UNCHANGED <<rooms, logged>>
    /\ UNCHANGED <<backend_vars, coordinator_vars, mcp_vars, bus_vars, active_connections,
                   connection_metadata, accepted>>

leave_room(connection_id, room_id) ==
    /\ IF room_id \in DOMAIN rooms
       THEN /\ rooms' = IF rooms[room_id] \ {connection_id} = {}
                        THEN Deleted(rooms, room_id)
                        ELSE Stored(rooms, room_id, rooms[room_id] \ {connection_id})
            /\ logged' = [event |-> "websocket_left_room",
                          connection_id |-> connection_id, room_id |-> room_id]
       ELSE UNCHANGED <<rooms, logged>>
    /\ UNCHANGED <<backend_vars, coordinator_vars, mcp_vars, bus_vars, active_connections,
                   connection_metadata, accepted>>

WebSocketNext ==
    \/ \E w \in Sockets, c \in ConnectionIds, m \in Metadata : connect(w, c, m)
    \/ \E w \in Sockets : disconnect(w)
    \/ \E c \in ConnectionIds, r \in RoomIds : join_room(c, r)
    \/ \E c \in ConnectionIds, r \in RoomIds : leave_room(c, r)

WebSocketSpec == Init /\ [][WebSocketNext]_vars

(***************************************************************************)
(* EventBus (nothing in the repository adds a middleware: the list that    *)
(* publish applies first is empty)                                         *)
(***************************************************************************)
\* self._handlers.get(event_type, [])
HandlersFor(subscriptions, event_type) ==
    IF event_type \in DOMAIN subscriptions THEN subscriptions[event_type] ELSE <<>>

\* the loop of subscribe over handler.event_types[k..]
RECURSIVE Subscribed(_, _, _)
Subscribed(subscriptions, handler, k) ==
    IF k > Len(event_types(handler)) THEN subscriptions
    ELSE LET event_type == event_types(handler)[k]
         IN Subscribed(Stored(subscriptions, event_type,
                              Append(HandlersFor(subscriptions, event_type), handler)),
                       handler, k + 1)

subscribe(handler) ==
    /\ \A k \in 1..Len(event_types(handler)) :
          Len(HandlersFor(_handlers, event_types(handler)[k])) < MaxSubscribed
    /\ _handlers' = Subscribed(_handlers, handler, 1)
    /\ UNCHANGED <<backend_vars, coordinator_vars, mcp_vars, websocket_vars,
                   publish_pc, published, tasks>>

\* publish up to its await: one coroutine handler.handle(event) per entry of
\* the list, all handed to gather; without handlers it returns at once
publish(event_type) ==
    /\ publish_pc \in {"idle", "returned"}
    /\ LET handlers == HandlersFor(_handlers, event_type)
       IN /\ published' = [event_type |-> event_type, handlers |-> handlers]
          /\ tasks' = [i \in 1..Len(handlers) |->
                          [handler |-> handlers[i], outcome |-> "pending"]]
          /\ publish_pc' = IF handlers # <<>> THEN "gathering" ELSE "returned"
    /\ UNCHANGED <<backend_vars, coordinator_vars, mcp_vars, websocket_vars, _handlers>>

\* one of the gathered coroutines ends: handle returns or raises
handle_done(i, outcome) ==
    /\ publish_pc = "gathering"
    /\ i \in DOMAIN tasks
    /\ tasks[i].outcome = "pending"
    /\ tasks' = [tasks EXCEPT ![i].outcome = outcome]
    /\ UNCHANGED <<backend_vars, coordinator_vars, mcp_vars, websocket_vars,
                   _handlers, publish_pc, published>>

\* gather(*tasks, return_exceptions=True) is complete: exceptions are results,
\* publish returns None
publish_returns ==
    /\ publish_pc = "gathering"
    /\ \A i \in DOMAIN tasks : tasks[i].outcome # "pending"
    /\ publish_pc' = "returned"
    /\ UNCHANGED <<backend_vars, coordinator_vars, mcp_vars, websocket_vars,
                   _handlers, published, tasks>>

EventBusNext ==
    \/ \E h \in EventHandlers : subscribe(h)
    \/ \E t \in EventTypes : publish(t)
    \/ \E i \in 1..MaxSubscribed, o \in {"returned", "raised"} : handle_done(i, o)
    \/ publish_returns

EventBusSpec == Init /\ [][EventBusNext]_vars

(***************************************************************************)
(* Properties                                                              *)
(***************************************************************************)
Done == pc \in {"returned", "raised"}
NumAgents == Len(task.agents)
QueriedAgents == {calls[k].agent_id : k \in 1..Len(calls)}

\* C1: a task with fewer than 2 or more than 10 participants is rejected with
\* an invalid-task error and no agent is queried, whatever the mode.
C1_ParticipantBounds ==
    (pc # "idle" /\ (NumAgents < MinParticipants \/ NumAgents > MaxParticipants))
        => /\ calls = <<>>
           /\ pc = "raised"
           /\ error.type = "InvalidTaskError"

\* C2: when the task names an id that is not registered, the call that starts
\* the collaboration ends at once with an error whose list holds exactly the
\* unregistered ids of the task, and no query is issued.
C2_MissingAgentsListed ==
    [][(pc = "idle" /\ pc' # "idle"
        /\ \E i \in 1..Len(task'.agents) : task'.agents[i] \notin DOMAIN active_agents)
       => /\ pc' = "raised"
          /\ error'.type = "ValueError"
          /\ error'.reason = "agents_not_available"
          /\ Range(error'.agents) = Range(task'.agents) \ DOMAIN active_agents
          /\ calls' = calls
          /\ outstanding' = {}
          /\ result' = NoResult]_vars

C2_Witness ==
    /\ pc = "raised"
    /\ error.type = "ValueError"
    /\ error.reason = "agents_not_available"
    /\ Cardinality(Range(error.agents)) = 2
    /\ NumAgents = 3
    /\ calls = <<>>

\* C3: in sequential mode the k-th query goes to the k-th participant, it is
\* issued only once k-1 responses are recorded, and at most one query is in
\* flight at any time.
C3_SequentialOrder ==
    task.mode = "sequential"
        => /\ \A k \in 1..Len(calls) :
                 /\ calls[k].agent_id = task.agents[k]
                 /\ calls[k].position = k
           /\ Cardinality(outstanding) <= 1
           /\ Len(calls) <= Len(responses) + 1
           /\ outstanding # {} => /\ outstanding = {Len(calls)}
                                  /\ Len(responses) = Len(calls) - 1
           /\ \A j \in 1..Len(responses) : responses[j].agent_id = task.agents[j]

C3_Witness ==
    /\ task.mode = "sequential"
    /\ pc = "returned"
    /\ Len(calls) = 3
    /\ Len(responses) = 3

\* the parallel gather has ended with every call answered or failed
GatherComplete ==
    /\ task.mode = "parallel"
    /\ Done
    /\ Len(responses_data) = NumAgents
    /\ \A i \in 1..NumAgents : responses_data[i] # Pending
FailedPositions == {i \in 1..Len(responses_data) : responses_data[i] = Raised}

\* C4: in parallel mode with n participants of which k raise, 0 < k < n, the
\* call returns a result whose individual_responses has exactly the n-k
\* participants that responded.
C4_PartialFailure ==
    (GatherComplete /\ FailedPositions # {} /\ Cardinality(FailedPositions) < NumAgents)
        => /\ pc = "returned"
           /\ DOMAIN result.individual_responses =
                 {task.agents[i] : i \in (1..NumAgents) \ FailedPositions}

\* C5: in parallel mode, when every participant's query raises, the call fails
\* with a no-agent-responded error and returns no result.
C5_TotalFailure ==
    (GatherComplete /\ NumAgents >= 1 /\ Cardinality(FailedPositions) = NumAgents)
        => /\ pc = "raised"
           /\ error.type = "NoAgentRespondedError"
           /\ result = NoResult

\* C6: in every mode, once task.timeout has expired with agent calls still
\* outstanding, the call returns no result: it fails with the timeout error.
C6_TimeoutInEveryMode ==
    (elapsed /\ Done) => (pc = "raised" /\ error = TimedOut /\ result = NoResult)

\* the responses of round r, once the round is part of all_responses
RoundResponses(r) == SubSeq(all_responses, (r - 1) * NumAgents + 1, r * NumAgents)
RoundRecorded(r) == NumAgents >= 1 /\ Len(all_responses) >= r * NumAgents
LengthSum(r) == RoundResponses(r)[1].content.len + RoundResponses(r)[2].content.len
NoQueryAfterRound(r) == \A k \in 1..Len(calls) : calls[k].iteration <= r
SameLength(rs) == \A i, j \in 1..Len(rs) : rs[i].content.len = rs[j].content.len

\* C7 as stated: in debate mode with max_iterations >= 3 and two agents whose
\* responses from round 2 on all have one length, no round-3 query is made and
\* a returned result has total_iterations 2.
C7_Original ==
    (/\ task.mode = "debate"
     /\ task.max_iterations >= 3
     /\ NumAgents = 2
     /\ RoundRecorded(2)
     /\ SameLength(SubSeq(all_responses, 3, Len(all_responses)) \o responses))
        => /\ NoQueryAfterRound(2)
           /\ pc = "returned" => result.total_iterations = 2

\* C7 amended: in debate mode with max_iterations >= 3 and two agents whose
\* round-2 responses have a mean length that differs from the non-zero mean
\* length of their round-1 responses by less than 10%, the debate stops at
\* round 2: the call returns with total_iterations 2 and no round-3 query.
C7_DebateStopsAtRound2 ==
    (/\ task.mode = "debate"
     /\ task.max_iterations >= 3
     /\ NumAgents = 2
     /\ RoundRecorded(2)
     /\ LengthSum(1) > 0
     /\ 10 * Abs(LengthSum(2) - LengthSum(1)) < LengthSum(1))
        => /\ NoQueryAfterRound(2)
           /\ Len(calls) = 4
           /\ Len(all_responses) = 4
           /\ pc = "returned"
           /\ result.total_iterations = 2

C7_Witness ==
    /\ task.mode = "debate"
    /\ task.max_iterations >= 3
    /\ NumAgents = 2
    /\ RoundRecorded(2)
    /\ LengthSum(1) > 0
    /\ LengthSum(2) # LengthSum(1)
    /\ 10 * Abs(LengthSum(2) - LengthSum(1)) < LengthSum(1)
    /\ pc = "returned"
    /\ result.total_iterations = 2

\* 1 - variance / mean^2 > 0.8 for the lengths of rs (1.0 for fewer than two)
RECURSIVE LenTotal(_)
LenTotal(rs) == IF rs = <<>> THEN 0 ELSE rs[1].content.len + LenTotal(Tail(rs))
RECURSIVE LenSquares(_)
LenSquares(rs) ==
    IF rs = <<>> THEN 0 ELSE rs[1].content.len * rs[1].content.len + LenSquares(Tail(rs))
ScoreExceedsEightTenths(rs) ==
    \/ Len(rs) < 2
    \/ /\ LenTotal(rs) > 0
       /\ 5 * (Len(rs) * LenSquares(rs) - LenTotal(rs) * LenTotal(rs))
             < LenTotal(rs) * LenTotal(rs)

\* C8: in consensus mode, once a round is over whose responses score above
\* 0.8, no further round is started: the call has returned, total_iterations
\* is the number of that round (1 when it is round 1) and consensus_achieved
\* is true.
C8_ConsensusEarlyExit ==
    task.mode = "consensus"
        => \A r \in 1..(MaxIter + 1) :
              (RoundRecorded(r) /\ ScoreExceedsEightTenths(RoundResponses(r)))
                 => /\ NoQueryAfterRound(r)
                    /\ Len(all_responses) = r * NumAgents
                    /\ pc = "returned"
                    /\ result.total_iterations = r
                    /\ result.consensus_achieved = TRUE

C8_Witness ==
    /\ task.mode = "consensus"
    /\ task.max_iterations >= 2
    /\ NumAgents = 2
    /\ Len(all_responses) = 2
    /\ all_responses[1].content.len # all_responses[2].content.len
    /\ ScoreExceedsEightTenths(RoundResponses(1))
    /\ pc = "returned"
    /\ result.total_iterations = 1
    /\ result.consensus_achieved = TRUE

\* C9: in sequential, debate and consensus mode, with at least two
\* participants, an exception raised by one participant's query does not
\* propagate out of start_collaboration, and once the call has ended every
\* participant of the round had been queried.
C9_AgentFailureIsolated ==
    (task.mode \in {"sequential", "debate", "consensus"} /\ NumAgents >= 2)
        => /\ error.type # "AgentError"
           /\ (Done /\ calls # <<>> /\ error.type # "KeyError")
                 => Range(task.agents) \subseteq QueriedAgents

\* text[:150]
Excerpt150(text) == [ch |-> text.ch, len |-> IF text.len > 150 THEN 150 ELSE text.len]

\* C10: in every debate round after the first, the prompt sent to the
\* participant at position p holds, for every other participant, an excerpt
\* of at most 150 characters of that participant's response of the round just
\* before, and nothing else: no excerpt of the participant's own response.
C10_DebatePeersOnly ==
    task.mode = "debate"
        => \A k \in 1..Len(calls) :
              calls[k].iteration >= 2
                 => LET c == calls[k]
                        ex == c.prompt.excerpts
                        before == RoundResponses(c.iteration - 1)
                    IN /\ RoundRecorded(c.iteration - 1)
                       /\ Len(ex) = NumAgents - 1
                       /\ \A e \in 1..Len(ex) :
                             /\ ex[e].agent_id # c.agent_id
                             /\ ex[e].text.len <= 150
                       /\ \A j \in (1..NumAgents) \ {c.position} :
                             \E e \in 1..Len(ex) :
                                /\ ex[e].agent_id = task.agents[j]
                                /\ ex[e].text = Excerpt150(before[j].content)

C10_Witness ==
    /\ task.mode = "debate"
    /\ NumAgents = 2
    /\ \E k \in 1..Len(calls) :
          /\ calls[k].iteration = 3
          /\ calls[k].position = 1
          /\ calls[k].prompt.excerpts[1].text.len = 150
          /\ RoundResponses(1)[2].content # RoundResponses(2)[2].content

\* C11: a task whose max_iterations is below 1 is rejected with an
\* invalid-task error before any agent is queried, in every mode: debate and
\* consensus never run round 1 for it.
C11_NonPositiveIterationsRejected ==
    (pc # "idle" /\ task.max_iterations < 1)
        => /\ calls = <<>>
           /\ pc = "raised"
           /\ error.type = "InvalidTaskError"

\* C12: within one run no query is repeated: sequential and parallel mode
\* query each participant at most once, debate and consensus mode at most once
\* per round, and a query that raised is not issued again.
C12_NoRetry ==
    /\ \A j, k \in 1..Len(calls) :
          (calls[j].agent_id = calls[k].agent_id /\ calls[j].iteration = calls[k].iteration)
             => j = k
    /\ task.mode \in {"sequential", "parallel"}
          => \A k \in 1..Len(calls) : calls[k].iteration = 1
    /\ Done => outstanding = {}

C12_Witness ==
    /\ task.mode = "debate"
    /\ NumAgents = 2
    /\ pc = "raised"
    /\ error.type = "AgentError"
    /\ Len(calls) = 4
    /\ calls[4].iteration = 2

\* the number of the last round in which a query was issued
LastRound ==
    CHOOSE r \in 0..(MaxIter + 1) :
        /\ \A k \in 1..Len(calls) : calls[k].iteration <= r
        /\ r > 0 => \E k \in 1..Len(calls) : calls[k].iteration = r

\* C13: in debate and consensus mode the individual_responses of a returned
\* result has one entry per participant, and the entry of each participant is
\* the content it gave in the last round that was run, also when the run
\* stopped early on convergence or consensus.
C13_LastRoundResponses ==
    (task.mode \in {"debate", "consensus"} /\ pc = "returned" /\ NumAgents >= 1)
        => /\ RoundRecorded(LastRound)
           /\ Len(all_responses) = LastRound * NumAgents
           /\ DOMAIN result.individual_responses = Range(task.agents)
           /\ \A j \in 1..NumAgents :
                 result.individual_responses[task.agents[j]]
                    = RoundResponses(LastRound)[j].content

C13_Witness ==
    /\ task.mode = "debate"
    /\ task.max_iterations = 3
    /\ NumAgents = 2
    /\ pc = "returned"
    /\ LastRound = 2
    /\ RoundResponses(1)[1].content # RoundResponses(2)[1].content
    /\ RoundResponses(1)[2].content # RoundResponses(2)[2].content
    /\ result.individual_responses[task.agents[1]] = RoundResponses(2)[1].content

\* C14: in parallel mode and in every round of debate and consensus mode the
\* queries of all participants are issued together, none waiting for another
\* one to complete: while a query of a round is in flight, every participant
\* has been sent its query of that round; and no next round or synthesis
\* starts before all have ended.
C14_ConcurrentFanOut ==
    (/\ task.mode \in {"parallel", "debate", "consensus"}
     /\ task.max_iterations >= 1
     /\ outstanding # {})
        => /\ \A j \in 1..NumAgents :
                 \E k \in 1..Len(calls) :
                    calls[k].position = j /\ calls[k].iteration = LastRound
           /\ pc = task.mode

\* C15: registering an id that is already registered fails with a
\* duplicate-agent error and leaves the registered handle in place: as long as
\* an id stays registered it maps to the handle of its first registration.
C15_DuplicateRegisterRejected ==
    [][/\ \A a \in AgentIds :
             (a \in DOMAIN active_agents /\ a \in DOMAIN active_agents')
                => active_agents'[a] = active_agents[a]
       /\ \A p \in PaperIds :
             (p \in DOMAIN paper_agents /\ p \in DOMAIN paper_agents')
                => paper_agents'[p] = paper_agents[p]
       /\ \A d \in PaperData :
             (coordinator_register_agent(d) /\ d.id \in DOMAIN paper_agents)
                => last_call'.log = "duplicate agent error"]_vars

\* C16: unregistering an id that is not registered changes nothing and
\* signals no error; a second unregister of the same id right after the first
\* changes nothing; the presence and the handle of every other id are kept.
\* The same for AgentCoordinator.remove_agent.
C16_UnregisterIdempotent ==
    [][/\ \A a \in AgentIds :
             unregister_agent(a)
                => /\ a \notin DOMAIN active_agents => UNCHANGED vars
                   /\ a \notin DOMAIN active_agents'
                   /\ Unregistered(active_agents', a) = active_agents'
                   /\ DOMAIN active_agents' \cup {a} = DOMAIN active_agents \cup {a}
                   /\ \A b \in DOMAIN active_agents' : active_agents'[b] = active_agents[b]
       /\ \A p \in PaperIds :
             remove_agent(p)
                => /\ p \notin DOMAIN paper_agents
                         => /\ UNCHANGED <<paper_agents, agent_relationships>>
                            /\ last_call'.log = "none"
                   /\ p \notin DOMAIN paper_agents'
                   /\ Unregistered(paper_agents', p) = paper_agents'
                   /\ DOMAIN paper_agents' \cup {p} = DOMAIN paper_agents \cup {p}
                   /\ \A q \in DOMAIN paper_agents' : paper_agents'[q] = paper_agents[q]
                   /\ DOMAIN agent_relationships' = DOMAIN paper_agents']_vars

C16_Witness ==
    /\ last_call = [op |-> "remove_agent", paper_id |-> "p1", log |-> "none"]
    /\ DOMAIN paper_agents = {"p2"}
    /\ paper_agents["p2"].title = "T2"
    /\ DOMAIN active_agents = {"a2", "a3"}
    /\ active_agents["a2"] # active_agents["a3"]

\* C17: while a start_collaboration call is under way the registry does not
\* change for its participants: every participant validated at the start is
\* still registered at each later step, so no lookup of a participant fails.
C17_RegistryStableDuringRun ==
    /\ pc \in Modes => Range(task.agents) \subseteq DOMAIN active_agents
    /\ error.type # "KeyError"

\* the positions of the gather whose call returned a reply
AnsweredPositions == {i \in 1..Len(responses_data) : responses_data[i] \in Replies}

\* C18: once the parallel fan-in has collected the replies, the collected
\* responses are those of the calls that returned, one each, and each carries
\* the id of the participant whose call returned it and that call's content,
\* whichever calls failed and in whatever order they ended; a returned result
\* maps each such participant to the content of its own call.
C18_ParallelAttribution ==
    GatherComplete
        => /\ Len(responses) = Cardinality(AnsweredPositions)
           /\ \A i \in AnsweredPositions :
                 /\ calls[i].position = i
                 /\ \E k \in 1..Len(responses) :
                       /\ responses[k].agent_id = calls[i].agent_id
                       /\ responses[k].content = responses_data[i].content
           /\ pc = "returned"
                 => /\ DOMAIN result.individual_responses
                          = {calls[i].agent_id : i \in AnsweredPositions}
                    /\ \A i \in AnsweredPositions :
                          result.individual_responses[calls[i].agent_id]
                             = responses_data[i].content

C18_Witness ==
    /\ GatherComplete
    /\ pc = "returned"
    /\ NumAgents = 3
    /\ FailedPositions = {1}
    /\ responses_data[2].content # responses_data[3].content
    /\ result.individual_responses[task.agents[3]] = responses_data[3].content

\* the send_message_to_conversation call is over
SendDone == send_pc \in {"returned", "raised"}

\* C19: a message sent by the user, or with no sender given, to an existing
\* conversation returns one agent_responses entry per participating agent, in
\* the order of the participants, each with that agent's response or its
\* error, and every participant has been asked, whatever register_agent,
\* remove_agent and start_conversation calls came after the conversation was
\* started.
C19_OneEntryPerParticipant ==
    (/\ SendDone
     /\ send_call.kind = "user"
     /\ send_call.sender_id \in {"user", Unspecified})
        => LET paper_ids == Conversation(send_call.conversation_id).participating_agents
           IN /\ send_pc = "returned"
              /\ Len(send_result.agent_responses) = Len(paper_ids)
              /\ \A i \in 1..Len(paper_ids) :
                    /\ send_result.agent_responses[i].agent_id = paper_ids[i]
                    /\ \/ "response" \in DOMAIN send_result.agent_responses[i]
                       \/ "error" \in DOMAIN send_result.agent_responses[i]
              /\ [i \in 1..Len(asked) |-> asked[i].paper_id] = paper_ids

\* C20: the total_iterations of a returned result is the number of rounds in
\* which agents were queried: 1 in sequential and parallel mode, and in
\* debate and consensus mode at least 1 and at most max_iterations.
C20_TotalIterations ==
    pc = "returned"
        => /\ result.total_iterations = LastRound
           /\ task.mode \in {"sequential", "parallel"} => result.total_iterations = 1
           /\ task.mode \in {"debate", "consensus"}
                 => /\ result.total_iterations >= 1
                    /\ result.total_iterations <= task.max_iterations

\* the list rs rearranged by the permutation p of its positions
Permuted(rs, p) == [i \in 1..Len(rs) |-> rs[p[i]]]
PositionPerms(n) == Perms(1..n)

\* C21: the consensus score of any list of responses is a value: it equals
\* max(0, 1 - variance / mean^2) of the content lengths, it lies in [0, 1],
\* and it is the same for every rearrangement of the list.
C21_ConsensusScoreContract ==
    LET rs == responses
        n == Len(rs)
        S == LenTotal(rs)
        Q == LenSquares(rs)
        score == ConsensusScore(rs)
    IN /\ ~score.raised
       /\ score.den > 0
       /\ 0 <= score.num /\ score.num <= score.den
       /\ n >= 2 => /\ score.den = S * S
                    /\ score.num = Max(0, S * S - (n * Q - S * S))
       /\ \A p \in PositionPerms(n) : ConsensusScore(Permuted(rs, p)) = score

\* the per-agent responses a returned result reports: those of the single
\* pass in sequential and parallel mode, those of the last round otherwise
ReportedResponses ==
    IF task.mode \in {"debate", "consensus"}
    THEN PyLast(all_responses, NumAgents) ELSE responses

\* the number of distinct first-100-character prefixes of rs
DistinctPrefixes(rs) ==
    Cardinality({[ch |-> rs[i].content.ch,
                  len |-> IF rs[i].content.len > 100 THEN 100 ELSE rs[i].content.len] :
                 i \in 1..Len(rs)})

RECURSIVE ConfidenceTotal(_)
ConfidenceTotal(rs) ==
    IF rs = <<>> THEN 0 ELSE rs[1].confidence + ConfidenceTotal(Tail(rs))

ScoredResponses ==
    IF task.mode \in {"debate", "consensus"} THEN all_responses ELSE responses

RoundSum(r) == LenTotal(RoundResponses(r))

\* |mean length(round r) - mean length(round r-1)| / mean length(round r-1) < 10%
\* (both rounds have NumAgents responses)
WithinTenPercent(r) ==
    /\ RoundSum(r - 1) > 0
    /\ 10 * (IF RoundSum(r) >= RoundSum(r - 1)
             THEN RoundSum(r) - RoundSum(r - 1)
             ELSE RoundSum(r - 1) - RoundSum(r)) < RoundSum(r - 1)

\* C23: the convergence check of a debate round r >= 2 gives true exactly
\* when the mean length of round r differs from that of round r-1 by less
\* than 10% of the latter: the debate stops after the first such round, with
\* total_iterations r and no later query, and otherwise goes on to round r+1
\* as long as r is below max_iterations.
C23_ConvergenceStopsDebate ==
    (task.mode = "debate" /\ NumAgents >= 1)
        => \A r \in 2..(MaxIter + 1) :
              RoundRecorded(r)
                 => /\ WithinTenPercent(r)
                          => /\ NoQueryAfterRound(r)
                             /\ pc = "returned"
                             /\ result.total_iterations = r
                    /\ (~WithinTenPercent(r) /\ r < task.max_iterations)
                          => \/ \E k \in 1..Len(calls) : calls[k].iteration = r + 1
                             \/ error.type = "KeyError"

\* the responses recorded before position i that the context may carry
LastRecorded(i) == SubSeq(responses, i - Min(i - 1, HistoryWindow), i - 1)

\* C24: in SEQUENTIAL mode the context handed to the participant at position
\* i carries position i, the number of participants as total_agents, and as
\* previous_responses the last min(i-1, 3) responses recorded before it, in
\* order, hence never more than 3.
C24_SequentialContext ==
    task.mode = "sequential"
        => \A k \in 1..Len(calls) :
              LET i == calls[k].position
                  context == calls[k].context
              IN /\ i = k
                 /\ Len(responses) >= i - 1
                 /\ context.position = i
                 /\ context.total_agents = NumAgents
                 /\ context.previous_responses = LastRecorded(i)
                 /\ Len(context.previous_responses) = Min(i - 1, 3)
                 /\ \A j \in 1..Len(context.previous_responses) :
                       context.previous_responses[j].agent_id
                          = task.agents[i - Len(context.previous_responses) + j - 1]

\* the fifth participant of five is queried with the responses of the
\* second, third and fourth only
C24_Witness ==
    /\ task.mode = "sequential"
    /\ Len(calls) = 5
    /\ Len(responses) = 4
    /\ Len(calls[5].context.previous_responses) = 3
    /\ calls[5].context.previous_responses[1] = responses[2]
    /\ responses[1].content # responses[2].content

\* C25: in SEQUENTIAL mode the first participant receives the original task
\* prompt; every later participant receives the original prompt followed by
\* one excerpt, the first 200 characters at most of the response of the
\* participant just before it, labelled with that participant's id; no
\* earlier response enters the prompt.
C25_SequentialPrompt ==
    task.mode = "sequential"
        => \A k \in 1..Len(calls) :
              LET prompt == calls[k].prompt
              IN /\ prompt.query = task.query
                 /\ k = 1 => prompt.kind = "original" /\ prompt.excerpts = <<>>
                 /\ k > 1 =>
                       /\ Len(responses) >= k - 1
                       /\ Len(prompt.excerpts) = 1
                       /\ prompt.excerpts[1].agent_id = task.agents[k - 1]
                       /\ prompt.excerpts[1].agent_id = responses[k - 1].agent_id
                       /\ prompt.excerpts[1].text.ch = responses[k - 1].content.ch
                       /\ prompt.excerpts[1].text.len
                             = Min(responses[k - 1].content.len, 200)

\* the third participant is queried with the first 200 of the 220 characters
\* of the second participant's response, the first having answered otherwise
C25_Witness ==
    /\ task.mode = "sequential"
    /\ Len(calls) >= 3
    /\ responses[1].content = Text("x", 200)
    /\ responses[2].content = Text("y", 220)
    /\ calls[3].prompt.excerpts = <<[agent_id |-> task.agents[2], text |-> Text("y", 200)]>>

\* C26: active_collaborations holds exactly the tasks whose
\* start_collaboration call is in progress: the task is in the map while the
\* call is awaiting, and the map is empty again once the call has ended,
\* whether it returned a result or raised.
C26_ActiveCollaborationsInProgress ==
    /\ pc \in Modes => active_collaborations = {task.task_id}
    /\ pc \in {"idle", "returned", "raised"} => active_collaborations = {}

\* C27: the convergence and consensus computations return a value for every
\* non-empty list of responses, lists of empty contents included: a DEBATE or
\* CONSENSUS run with at least one participant never ends in a
\* ZeroDivisionError.
C27_ComputationsTotal ==
    (task.mode \in {"debate", "consensus"} /\ NumAgents >= 1 /\ pc = "raised")
        => error # ZeroDivisionError

\* the message at position k of the log is the latest initialize message
\* that carries agent_id
LatestInitialize(k, agent_id) ==
    /\ received[k].message = [type |-> "initialize", agent_id |-> agent_id]
    /\ \A j \in (k + 1)..Len(received) :
          received[j].message # [type |-> "initialize", agent_id |-> agent_id]

\* C28: an agent id whose most recently initialized connection is still open
\* is in connected_agents and maps to that connection, whatever other
\* connections have done meanwhile.
C28_LatestConnectionRegistered ==
    \A agent_id \in McpAgentIds, k \in 1..Len(received) :
        (LatestInitialize(k, agent_id) /\ websockets[received[k].websocket].state = "open")
            => /\ agent_id \in DOMAIN connected_agents
               /\ connected_agents[agent_id] = received[k].websocket

\* C29: in WebSocketManager every member of every room is an active
\* connection, no room is empty, and active_connections and
\* connection_metadata have the same keys.
C29_RoomsAndConnections ==
    /\ \A r \in DOMAIN rooms :
          /\ rooms[r] # {}
          /\ rooms[r] \subseteq DOMAIN active_connections
    /\ DOMAIN active_connections = DOMAIN connection_metadata

\* c1 has just been disconnected; its websocket is gone from the dicts, the
\* room r1 lives on with c2 and no room is left for c1 alone
C29_Witness ==
    /\ logged = [event |-> "websocket_disconnected", connection_id |-> "c1"]
    /\ DOMAIN active_connections = {"c2"}
    /\ DOMAIN connection_metadata = {"c2"}
    /\ Cardinality(accepted) >= 2
    /\ DOMAIN rooms = {"r1"}
    /\ rooms["r1"] = {"c2"}

\* the handlers subscribed to the type of the published event
SubscribedHandlers == {published.handlers[i] : i \in 1..Len(published.handlers)}

\* how many times publish called handle on the handler
HandleCalls(handler) == Cardinality({i \in DOMAIN tasks : tasks[i].handler = handler})

\* C30: a publish call that has returned has called handle exactly once on
\* every handler subscribed to the event's type and on no other handler, each
\* of these calls has run to its end whether or not another one raised, and
\* publish never raises.
C30_PublishOncePerHandler ==
    /\ publish_pc # "raised"
    /\ publish_pc = "returned"
          => /\ \A h \in EventHandlers :
                   HandleCalls(h) = IF h \in SubscribedHandlers THEN 1 ELSE 0
             /\ \A h \in SubscribedHandlers : published.event_type \in Range(event_types(h))
             /\ \A i \in DOMAIN tasks : tasks[i].outcome \in {"returned", "raised"}

====
